---- MODULE Spec2Model ----
(***************************************************************************)
(* Fuel level visualizer: the serial protocol codec (SerialProtocol in     *)
(* src/visualizer/serial_protocol.py) and the session run by               *)
(* FuelLevelVisualizer.visualize (src/visualizer/main.py).                 *)
(*                                                                         *)
(* Byte strings are sequences of 0..255.  A Python object whose attribute  *)
(* has not been assigned yet is a record with a has_<attribute> flag.      *)
(* An exception that leaves a method is recorded in `raised`; nothing in   *)
(* the sources catches one, so a run ends there.                           *)
(***************************************************************************)
EXTENDS Integers, Sequences, FiniteSets, TLC

VARIABLES
    packet,      \* SerialProtocol.packet (a Packet object)
    data,        \* SerialProtocol.data (the one Data object, made in __init__)
    raised,      \* the exception propagating out of the last call, or "none"
    call,        \* the last call on the objects and its arguments
    built,       \* arguments of the build_packet call that produced packet.byte_array
    handed_out,  \* parse_packet has returned self.data to a caller at least once
    emulate,     \* FuelLevelVisualizer.emulate
    pc,          \* position of the session: "Idle" or "AwaitingResponse"
    port_open,   \* the serial port is open
    line_out,    \* bytes written to the port by the last query
    line_in,     \* bytes the device has sent and the port has not yet read
    shown        \* the samples handed to the console and the plot

vars == <<packet, data, raised, call, built, handed_out,
          emulate, pc, port_open, line_out, line_in, shown>>
sessionVars == <<emulate, pc, port_open, line_out, line_in, shown>>

(***************************************************************************)
(* Program constants.                                                      *)
(***************************************************************************)
PacketType_QUERY == 0
PacketType_RESPONSE == 1
Command_HEADER == 43605        \* 0xAA55
Command_QUERY == 4369          \* 0x1111
Command_RESPONSE == 8738       \* 0x2222
CrcPoly == 69665               \* 0x11021
CrcInit == 65535               \* initCrc=0xFFFF
CrcXorOut == 0                 \* xorOut=0x0000
U16Max == 65535                \* struct format "H": 0 <= number <= 65535
SampleBytes == 4               \* 2 bytes time stamp + 2 bytes fuel level
QueryLength == 2               \* self.packet.length of a query
TimeWindow == 3600             \* np.random.randint(0, 3600 - n_samples)
FuelLevels == 32768            \* np.random.randint(0, 2**15, ...)
DefaultSamples == 60           \* FuelLevelVisualizer.__init__: n_samples=60

(***************************************************************************)
(* Bounds of the model.                                                    *)
(***************************************************************************)
MaxSamples == 2                \* longest enumerated sample sequence

Min(a, b) == IF a < b THEN a ELSE b

(***************************************************************************)
(* crcmod.mkCrcFun(0x11021, initCrc=0xFFFF, xorOut=0x0000, rev=False):     *)
(* the table-driven, most-significant-bit-first CRC-16 of crcmod.          *)
(***************************************************************************)
RECURSIVE XorBits(_, _, _)
XorBits(a, b, k) ==
    IF k = 0 THEN 0
    ELSE ((a + b) % 2) + 2 * XorBits(a \div 2, b \div 2, k - 1)

\* Xor8[a + 1][b + 1] is a XOR b for bytes a, b (kept as a table of tuples).
Xor8 ==
    [a \in 1..256 |-> ([b \in 1..256 |-> XorBits(a - 1, b - 1, 8)] \o <<>>)] \o <<>>

Xor16(a, b) ==
    Xor8[(a \div 256) + 1][(b \div 256) + 1] * 256 + Xor8[(a % 256) + 1][(b % 256) + 1]

RECURSIVE CrcShift(_, _)
CrcShift(c, k) ==
    IF k = 0 THEN c
    ELSE CrcShift(IF c >= 32768
                  THEN Xor16((c * 2) % 65536, CrcPoly % 65536)
                  ELSE c * 2,
                  k - 1)

\* CrcTable[i + 1]: the register after shifting byte i through the polynomial.
CrcTable == [i \in 1..256 |-> CrcShift((i - 1) * 256, 8)] \o <<>>

CrcUpdate(crc, byte) ==
    Xor16((crc % 256) * 256, CrcTable[Xor8[(crc \div 256) + 1][byte + 1] + 1])

RECURSIVE CrcRange(_, _, _, _)
CrcRange(crc, b, lo, hi) ==
    IF lo > hi THEN crc
    ELSE IF lo = hi THEN CrcUpdate(crc, b[lo])
    ELSE LET mid == (lo + hi) \div 2
             left == CrcRange(crc, b, lo, mid)
         IN  IF left >= 0 THEN CrcRange(left, b, mid + 1, hi) ELSE left

\* A CRC that leaves the first byte out.
crc_ccitt_SkipFirst(b) == Xor16(CrcRange(CrcInit, b, 2, Len(b)), CrcXorOut)

crc_ccitt(b) == Xor16(CrcRange(CrcInit, b, 1, Len(b)), CrcXorOut)

(***************************************************************************)
(* struct.pack / struct.unpack with the formats ">H", ">HH", ">HHH".       *)
(***************************************************************************)
\* A pack that takes any number and keeps its low 16 bits.
PackableAny(v) == TRUE

\* struct.pack(">H", v) raises struct.error unless 0 <= v <= 65535.
Packable(v) == v \in 0..U16Max

\* The two bytes of struct.pack(">H", v), most significant first.
PackH(v) == <<(v \div 256) % 256, v % 256>>

\* struct.unpack(">H", b[i : i + 2])[0], i counted from 1.
UnpackH(b, i) == b[i] * 256 + b[i + 1]

\* The payload of a response: struct.pack(">HH", TimeStamp, FuelLevel) per sample.
PackSamples(samples) ==
    [i \in 1..(SampleBytes * Len(samples)) |->
        LET s == samples[((i - 1) \div SampleBytes) + 1]
            k == (i - 1) % SampleBytes
        IN  IF k = 0 THEN s.TimeStamp \div 256
            ELSE IF k = 1 THEN s.TimeStamp % 256
            ELSE IF k = 2 THEN s.FuelLevel \div 256
            ELSE s.FuelLevel % 256] \o <<>>

\* A decoder that reads the two fields of a sample in the other order.
FromBufferSwapped(section) ==
    [i \in 1..(Len(section) \div SampleBytes) |->
        [TimeStamp |-> UnpackH(section, SampleBytes * (i - 1) + 3),
         FuelLevel |-> UnpackH(section, SampleBytes * (i - 1) + 1)]] \o <<>>

\* np.frombuffer(section, dtype=[("TimeStamp", ">u2"), ("FuelLevel", ">u2")])
\* for a section whose size is a multiple of the element size.
FromBuffer(section) ==
    [i \in 1..(Len(section) \div SampleBytes) |->
        [TimeStamp |-> UnpackH(section, SampleBytes * (i - 1) + 1),
         FuelLevel |-> UnpackH(section, SampleBytes * (i - 1) + 3)]] \o <<>>

\* byte_array.extend(struct.pack(">H", crc)) after crc = self.crc_ccitt(byte_array)
AppendCrc(body) == body \o PackH(crc_ccitt(body))

(***************************************************************************)
(* The objects.                                                            *)
(***************************************************************************)
\* Packet(): a class with annotations only, so a new object has no attribute.
NewPacket == [has_length |-> FALSE, length |-> 0,
              has_bytes |-> FALSE, byte_array |-> <<>>]

\* Data(): likewise.
NewData == [has_type |-> FALSE, type |-> PacketType_QUERY,
            has_n |-> FALSE, n_samples |-> 0,
            has_samples |-> FALSE, samples |-> <<>>]

NoBuild == [valid |-> FALSE, type |-> PacketType_QUERY, n |-> 0, samples |-> <<>>]

\* A call: its name and arguments; for a parse, which bit of the built packet
\* was flipped on the way (0: none) and the build the bytes came from.
NoCall == [op |-> "init", n |-> 0, samples |-> <<>>, bytes |-> <<>>,
           flip |-> 0, origin |-> NoBuild]

(***************************************************************************)
(* SerialProtocol.build_packet.  Each operator gives the packet object     *)
(* after the call and the exception raised, if any.                        *)
(***************************************************************************)
\* A query whose count is packed as one byte.
QueryBytesNarrow(n) ==
    AppendCrc(PackH(Command_HEADER) \o PackH(Command_QUERY)
              \o PackH(QueryLength) \o PackH(n % 256))

QueryBytes(n) ==
    AppendCrc(PackH(Command_HEADER) \o PackH(Command_QUERY)
              \o PackH(QueryLength) \o PackH(n))

ResponseBytes(samples) ==
    AppendCrc(PackH(Command_HEADER) \o PackH(Command_RESPONSE)
              \o PackH(SampleBytes * Len(samples)) \o PackSamples(samples))

build_query(pkt, n) ==
    LET p1 == [pkt EXCEPT !.has_length = TRUE, !.length = QueryLength]
    IN  IF ~Packable(n)
        THEN [packet |-> p1, raised |-> "StructError"]
        ELSE [packet |-> [p1 EXCEPT !.has_bytes = TRUE, !.byte_array = QueryBytes(n)],
              raised |-> "none"]

\* `encoded` is ResponseBytes(samples); it is read only when the length packs.
build_response(pkt, samples, encoded) ==
    LET p1 == [pkt EXCEPT !.has_length = TRUE,
                          !.length = Len(samples) * SampleBytes]
    IN  IF ~Packable(p1.length)
        THEN [packet |-> p1, raised |-> "StructError"]
        ELSE [packet |-> [p1 EXCEPT !.has_bytes = TRUE, !.byte_array = encoded],
              raised |-> "none"]

(***************************************************************************)
(* SerialProtocol.parse_packet: the packet and data objects after the      *)
(* call and the exception raised, if any.  It returns self.data.           *)
(***************************************************************************)
parse_packet(pkt, dat, b) ==
    IF Len(b) < 2
    THEN [packet |-> pkt, data |-> dat, raised |-> "StructError"]
    ELSE
    LET payload == SubSeq(b, 1, Len(b) - 2)
        crc_recv == UnpackH(b, Len(b) - 1)
        crc_calc == crc_ccitt(payload)
    IN
    IF crc_recv # crc_calc
    THEN [packet |-> pkt, data |-> dat, raised |-> "CrcMismatch"]
    ELSE IF Len(payload) < 6
    THEN [packet |-> pkt, data |-> dat, raised |-> "StructError"]
    ELSE
    LET header == UnpackH(payload, 1)
        command == UnpackH(payload, 3)
        length == UnpackH(payload, 5)
        p1 == [NewPacket EXCEPT !.has_length = TRUE, !.length = length]
    IN
    IF header # Command_HEADER
    THEN [packet |-> pkt, data |-> dat, raised |-> "InvalidHeader"]
    ELSE IF command = Command_QUERY
    THEN IF Len(payload) < 8
         THEN [packet |-> p1, data |-> dat, raised |-> "StructError"]
         ELSE [packet |-> p1,
               data |-> [dat EXCEPT !.has_type = TRUE, !.type = PacketType_QUERY,
                                    !.has_n = TRUE, !.n_samples = UnpackH(payload, 7)],
               raised |-> "none"]
    ELSE IF command = Command_RESPONSE
    THEN LET d1 == [dat EXCEPT !.has_type = TRUE, !.type = PacketType_RESPONSE,
                               !.has_n = TRUE, !.n_samples = length \div SampleBytes]
             section == SubSeq(payload, 7, Min(6 + length, Len(payload)))
         IN  IF Len(section) % SampleBytes # 0
             THEN [packet |-> p1, data |-> d1, raised |-> "BufferSizeError"]
             ELSE [packet |-> p1,
                   data |-> [d1 EXCEPT !.has_samples = TRUE,
                                       !.samples = FromBuffer(section)],
                   raised |-> "none"]
    ELSE [packet |-> p1, data |-> dat, raised |-> "none"]

(***************************************************************************)
(* SerialProtocol.emulate_response with _generate_random_samples.  The     *)
(* draws of np.random are arguments: u = 0 stands for the lowest and       *)
(* u = 1 for the highest start time stamp randint(0, 3600 - n) can draw,   *)
(* and a, b are the fuel levels drawn for the odd and the even samples.    *)
(***************************************************************************)
generate_random_samples(n, u, a, b) ==
    LET start_time_stamp == u * (TimeWindow - n - 1)
    IN  [i \in 1..n |->
            [TimeStamp |-> (start_time_stamp + i - 1) % (U16Max + 1),
             FuelLevel |-> IF i % 2 = 1 THEN a ELSE b]] \o <<>>

emulate_response(pkt, dat, u, a, b) ==
    IF ~pkt.has_bytes
    THEN [packet |-> pkt, data |-> dat, raised |-> "AttributeError",
          n |-> 0, samples |-> <<>>]
    ELSE
    LET q == parse_packet(pkt, dat, pkt.byte_array)
    IN
    IF q.raised # "none"
    THEN [packet |-> q.packet, data |-> q.data, raised |-> q.raised,
          n |-> 0, samples |-> <<>>]
    ELSE IF ~q.data.has_n
    THEN [packet |-> q.packet, data |-> q.data, raised |-> "AttributeError",
          n |-> 0, samples |-> <<>>]
    ELSE
    LET n_samples == q.data.n_samples
    IN
    IF TimeWindow - n_samples <= 0
    THEN [packet |-> q.packet, data |-> q.data, raised |-> "RandintRangeError",
          n |-> n_samples, samples |-> <<>>]
    ELSE
    LET random_samples == generate_random_samples(n_samples, u, a, b)
        r == build_response(q.packet, random_samples, ResponseBytes(random_samples))
    IN  [packet |-> r.packet, data |-> q.data, raised |-> r.raised,
         n |-> n_samples, samples |-> random_samples]

(***************************************************************************)
(* Corruption on the line: bit i of a byte string inverted, bits counted   *)
(* from 1, least significant bit of the first byte first.                  *)
(***************************************************************************)
Pow2 == <<1, 2, 4, 8, 16, 32, 64, 128>>

FlipBit(b, i) ==
    LET at == ((i - 1) \div 8) + 1
        k == ((i - 1) % 8) + 1
    IN  [b EXCEPT ![at] = Xor8[b[at] + 1][Pow2[k] + 1]]

(***************************************************************************)
(* Inputs.                                                                 *)
(***************************************************************************)
Sample(t, f) == [TimeStamp |-> t, FuelLevel |-> f]
SampleVals == {Sample(100, 16384), Sample(65535, 255)}
SampleSeqs == UNION {[1..k -> SampleVals] : k \in 0..MaxSamples}
QueryCounts == {0, 1, 2, TimeWindow, U16Max}
FuelChoices == {0, FuelLevels - 1}

\* The longest packet of these inputs, in bits.
MaxFlipBits == 8 * (8 + SampleBytes * MaxSamples)

\* Frames with a correct CRC that build_packet does not produce.
Frame(header, command, length, payload) ==
    AppendCrc(PackH(header) \o PackH(command) \o PackH(length) \o payload)
CraftedCommands == {Command_QUERY, Command_RESPONSE, 13107}
CraftedLengths == {4, 5, 8}
CraftedPayloads == {<<0, 100, 64, 0>>, <<0, 100, 64, 0, 7>>}
Crafted ==
    {Frame(Command_HEADER, c, l, p) :
        c \in CraftedCommands, l \in CraftedLengths, p \in CraftedPayloads}
    \cup {Frame(21930, Command_RESPONSE, 4, <<0, 100, 64, 0>>)}

\* Sizes at the edge of the 16-bit fields: the longest response whose length
\* packs and the next one, the largest query count and the next one.
LimitLengths == <<U16Max \div SampleBytes, (U16Max \div SampleBytes) + 1>>
LimitSeqs ==
    [k \in 1..2 |->
        ([i \in 1..LimitLengths[k] |->
            Sample(i % (U16Max + 1), (7 * i) % FuelLevels)] \o <<>>)] \o <<>>
LimitCounts == {U16Max, U16Max + 1}

\* ResponseBytes of the sequences of LimitSeqs, computed once.
LimitEncoded ==
    [k \in 1..2 |->
        IF Packable(SampleBytes * Len(LimitSeqs[k]))
        THEN ResponseBytes(LimitSeqs[k])
        ELSE <<>>] \o <<>>

Running == raised = "none"

(***************************************************************************)
(* SerialProtocol(): the state after construction.                         *)
(***************************************************************************)
Init ==
    /\ packet = NewPacket
    /\ data = NewData
    /\ raised = "none"
    /\ call = NoCall
    /\ built = NoBuild
    /\ handed_out = FALSE
    /\ emulate = FALSE
    /\ pc = "Idle"
    /\ port_open = TRUE
    /\ line_out = <<>>
    /\ line_in = <<>>
    /\ shown = <<>>

\* build_packet(PacketType.QUERY, n_samples=n)
BuildQuery(n) ==
    /\ Running
    /\ LET r == build_query(packet, n)
       IN  /\ packet' = r.packet
           /\ raised' = r.raised
           /\ built' = IF r.raised = "none"
                       THEN [valid |-> TRUE, type |-> PacketType_QUERY,
                             n |-> n, samples |-> <<>>]
                       ELSE built
    /\ call' = [NoCall EXCEPT !.op = "build_query", !.n = n]
    /\ UNCHANGED <<data, handed_out>>
    /\ UNCHANGED sessionVars

\* build_packet(PacketType.RESPONSE, samples=samples), encoded = ResponseBytes(samples)
BuildResponseWith(samples, encoded) ==
    /\ Running
    /\ LET r == build_response(packet, samples, encoded)
       IN  /\ packet' = r.packet
           /\ raised' = r.raised
           /\ built' = IF r.raised = "none"
                       THEN [valid |-> TRUE, type |-> PacketType_RESPONSE,
                             n |-> 0, samples |-> samples]
                       ELSE built
    /\ call' = [NoCall EXCEPT !.op = "build_response", !.samples = samples]
    /\ UNCHANGED <<data, handed_out>>
    /\ UNCHANGED sessionVars

BuildResponse(samples) ==
    /\ samples \in SampleSeqs
    /\ BuildResponseWith(samples, ResponseBytes(samples))

\* build_packet(PacketType.RESPONSE, samples=LimitSeqs[k])
BuildLimit(k) ==
    /\ k \in DOMAIN LimitSeqs
    /\ BuildResponseWith(LimitSeqs[k], LimitEncoded[k])

\* parse_packet(b), the common part of the parse actions.
Parse(b, flip, origin) ==
    /\ Running
    /\ LET r == parse_packet(packet, data, b)
       IN  /\ packet' = r.packet
           /\ data' = r.data
           /\ raised' = r.raised
           /\ handed_out' = (handed_out \/ r.raised = "none")
           /\ built' = IF r.packet = packet THEN built ELSE NoBuild
    /\ call' = [NoCall EXCEPT !.op = "parse", !.bytes = b, !.flip = flip,
                              !.origin = origin]
    /\ UNCHANGED sessionVars

\* parse_packet of the packet last built, as it is
ParseBuilt ==
    /\ packet.has_bytes
    /\ Parse(packet.byte_array, 0, built)

\* parse_packet of the packet last built with bit i inverted on the way
ParseFlipped(i) ==
    /\ packet.has_bytes
    /\ i \in 1..(8 * Len(packet.byte_array))
    /\ Parse(FlipBit(packet.byte_array, i), i, built)

\* parse_packet of a frame some other sender put together
ParseCrafted(b) ==
    /\ b \in Crafted
    /\ Parse(b, 0, NoBuild)

\* emulate_response()
EmulateResponse ==
    /\ Running
    /\ \E u \in {0, 1}, a, b \in FuelChoices :
         LET r == emulate_response(packet, data, u, a, b)
         IN  /\ packet' = r.packet
             /\ data' = r.data
             /\ raised' = r.raised
             /\ built' = IF r.raised = "none"
                         THEN [valid |-> TRUE, type |-> PacketType_RESPONSE,
                               n |-> 0, samples |-> r.samples]
                         ELSE IF r.packet = packet THEN built ELSE NoBuild
             /\ call' = [NoCall EXCEPT !.op = "emulate", !.n = r.n,
                                       !.samples = r.samples, !.origin = built]
    /\ UNCHANGED handed_out
    /\ UNCHANGED sessionVars

(***************************************************************************)
(* The codec under calls in any order, with frames of other senders and    *)
(* the emulator.                                                           *)
(***************************************************************************)
Next ==
    \/ \E n \in QueryCounts : BuildQuery(n)
    \/ \E s \in SampleSeqs : BuildResponse(s)
    \/ ParseBuilt
    \/ \E b \in Crafted : ParseCrafted(b)
    \/ EmulateResponse

Spec == Init /\ [][Next]_vars

(***************************************************************************)
(* The codec behind a line that inverts one bit of a packet.               *)
(***************************************************************************)
NextLine ==
    \/ \E n \in QueryCounts : BuildQuery(n)
    \/ \E s \in SampleSeqs : BuildResponse(s)
    \/ ParseBuilt
    \/ \E i \in 1..MaxFlipBits : ParseFlipped(i)

SpecLine == Init /\ [][NextLine]_vars

(***************************************************************************)
(* The codec at the edge of its 16-bit fields.                             *)
(***************************************************************************)
NextLimit ==
    \/ \E n \in LimitCounts : BuildQuery(n)
    \/ \E s \in SampleSeqs : BuildResponse(s)
    \/ \E k \in DOMAIN LimitSeqs : BuildLimit(k)
    \/ ParseBuilt

SpecLimit == Init /\ [][NextLimit]_vars

(***************************************************************************)
(* FuelLevelVisualizer: one controller on one port.  visualize() is cut    *)
(* where it waits for the answer: the query (build, port.write) and the    *)
(* receive (read or emulate, parse, console output, plot, port.close).     *)
(***************************************************************************)
SessionDurations == {0, 1, 2, DefaultSamples}

\* serial.Serial.read(): size defaults to 1, so at most one byte is returned
\* (none when the timeout passes with nothing received).
port_read(buffer) == SubSeq(buffer, 1, Min(1, Len(buffer)))

\* lines 36-39: parse_packet(bytearray(response)), then the console output
\* reads self.protocol.data.samples.
receive_parse(pkt, dat, response, held, rest) ==
    LET p == parse_packet(pkt, dat, response)
    IN  [packet |-> p.packet, data |-> p.data,
         raised |-> IF p.raised # "none" THEN p.raised
                    ELSE IF ~p.data.has_samples THEN "AttributeError"
                    ELSE "none",
         parsed |-> p.raised = "none", held |-> held, rest |-> rest]

\* lines 32-39: the answer comes from the emulator or from one port.read().
visualize_receive(pkt, dat, emu, buffer, u, a, b) ==
    IF emu
    THEN LET e == emulate_response(pkt, dat, u, a, b)
         IN  IF e.raised # "none"
             THEN [packet |-> e.packet, data |-> e.data, raised |-> e.raised,
                   parsed |-> FALSE, held |-> <<>>, rest |-> buffer]
             ELSE receive_parse(e.packet, e.data, e.packet.byte_array,
                                e.packet.byte_array, buffer)
    ELSE receive_parse(pkt, dat, port_read(buffer), buffer,
                       SubSeq(buffer, Len(port_read(buffer)) + 1, Len(buffer)))

\* What a device answers to a query for n samples: a response with n samples.
DeviceSamples(n) ==
    {[i \in 1..n |-> IF i % 2 = 1 THEN x ELSE y] \o <<>> : x, y \in SampleVals}

\* FuelLevelVisualizer(port, baud, emulate): __init__ opens the port, makes the
\* protocol object and builds a first query for 60 samples.
FirstQuery == build_query(NewPacket, DefaultSamples).packet

SessionInit ==
    /\ packet = FirstQuery
    /\ data = NewData
    /\ raised = "none"
    /\ call = NoCall
    /\ built = [valid |-> TRUE, type |-> PacketType_QUERY,
                n |-> DefaultSamples, samples |-> <<>>]
    /\ handed_out = FALSE
    /\ emulate \in BOOLEAN
    /\ pc = "Idle"
    /\ port_open = TRUE
    /\ line_out = <<>>
    /\ line_in = <<>>
    /\ shown = <<>>

\* visualize(duration), the query: lines 29-30
VisualizeQuery(duration) ==
    /\ Running
    /\ pc = "Idle"
    /\ LET r == build_query(packet, duration)
           sent == r.raised = "none" /\ port_open
       IN  /\ packet' = r.packet
           /\ raised' = IF r.raised # "none" THEN r.raised
                        ELSE IF ~port_open THEN "PortNotOpenError"
                        ELSE "none"
           /\ built' = IF r.raised = "none"
                       THEN [valid |-> TRUE, type |-> PacketType_QUERY,
                             n |-> duration, samples |-> <<>>]
                       ELSE built
           /\ line_out' = IF sent THEN r.packet.byte_array ELSE line_out
           \* the emulated port is "loop://": what is written comes back
           /\ line_in' = IF sent /\ emulate
                         THEN line_in \o r.packet.byte_array
                         ELSE line_in
           /\ pc' = IF sent THEN "AwaitingResponse" ELSE pc
    /\ call' = [NoCall EXCEPT !.op = "query", !.n = duration]
    /\ UNCHANGED <<data, handed_out, emulate, port_open, shown>>

\* The device on the other end of the line answers the query it received.
DeviceRespond ==
    /\ Running
    /\ ~emulate
    /\ pc = "AwaitingResponse"
    /\ line_out # <<>>
    /\ line_in = <<>>
    /\ \E s \in DeviceSamples(UnpackH(line_out, 7)) :
         line_in' = ResponseBytes(s)
    /\ UNCHANGED <<packet, data, raised, call, built, handed_out,
                   emulate, pc, port_open, line_out, shown>>

\* visualize(duration), the receive: lines 32-43
VisualizeReceive ==
    /\ Running
    /\ pc = "AwaitingResponse"
    /\ \E u \in {0, 1}, a, b \in FuelChoices :
         LET r == visualize_receive(packet, data, emulate, line_in, u, a, b)
         IN  /\ packet' = r.packet
             /\ data' = r.data
             /\ raised' = r.raised
             /\ handed_out' = (handed_out \/ r.parsed)
             /\ line_in' = r.rest
             /\ shown' = IF r.raised = "none" THEN r.data.samples ELSE shown
             /\ port_open' = IF r.raised = "none" THEN FALSE ELSE port_open
             /\ pc' = IF r.raised = "none" THEN "Idle" ELSE pc
             \* bytes: what the transport, or the emulator, held as the answer
             /\ call' = [NoCall EXCEPT !.op = "receive", !.bytes = r.held]
    /\ built' = NoBuild
    /\ UNCHANGED <<emulate, line_out>>

NextSession ==
    \/ \E d \in SessionDurations : VisualizeQuery(d)
    \/ DeviceRespond
    \/ VisualizeReceive

SpecSession == SessionInit /\ [][NextSession]_vars

(***************************************************************************)
(* Properties.                                                             *)
(***************************************************************************)
MaxResponseSamples == U16Max \div SampleBytes

\* The fields of a frame of at least 8 bytes.
FieldHeader(b) == UnpackH(b, 1)
FieldCommand(b) == UnpackH(b, 3)
FieldLength(b) == UnpackH(b, 5)
PresentPayload(b) == Len(b) - 8
ValidCrc(b) == UnpackH(b, Len(b) - 1) = crc_ccitt(SubSeq(b, 1, Len(b) - 2))
ValidFrame(b) ==
    Len(b) >= 8 /\ ValidCrc(b) /\ FieldHeader(b) = Command_HEADER

\* The last call parsed, unchanged, the packet a build_packet call produced.
ParsedBuilt(type) ==
    /\ call.op = "parse"
    /\ call.flip = 0
    /\ call.origin.valid
    /\ call.origin.type = type

\* C1: parse_packet of the bytes build_packet(RESPONSE, samples=S) produced,
\* for S of 0 to 16383 samples, succeeds and yields type RESPONSE,
\* n_samples = len(S) and exactly the samples of S in their order.
C1_ResponseRoundTrip ==
    ParsedBuilt(PacketType_RESPONSE) =>
        /\ Len(call.origin.samples) <= MaxResponseSamples
        /\ raised = "none"
        /\ data.has_type /\ data.type = PacketType_RESPONSE
        /\ data.has_n /\ data.n_samples = Len(call.origin.samples)
        /\ data.has_samples /\ data.samples = call.origin.samples

\* C1 at the longest response: 16383 samples came back.
C1_Witness ==
    /\ ParsedBuilt(PacketType_RESPONSE)
    /\ raised = "none"
    /\ Len(call.origin.samples) = MaxResponseSamples
    /\ Len(data.samples) = MaxResponseSamples

\* C2: parse_packet of the bytes build_packet(QUERY, n_samples=n) produced,
\* for n in 0..65535, succeeds and yields type QUERY with n_samples = n.
C2_QueryRoundTrip ==
    ParsedBuilt(PacketType_QUERY) =>
        /\ raised = "none"
        /\ data.has_type /\ data.type = PacketType_QUERY
        /\ data.has_n /\ data.n_samples = call.origin.n

\* C2 at the largest count.
C2_Witness ==
    /\ ParsedBuilt(PacketType_QUERY)
    /\ raised = "none"
    /\ call.origin.n = U16Max
    /\ data.n_samples = U16Max

\* C3: parse_packet of a built packet (query or response) with any one bit
\* inverted fails with the CRC mismatch, and leaves the decoded data and the
\* packet object of the protocol as they were.
C3_CrcSensitivity ==
    [][(call'.op = "parse" /\ call'.flip > 0) =>
          /\ raised' = "CrcMismatch"
          /\ data' = data
          /\ packet' = packet]_vars

\* C3 with a bit of the CRC field inverted, on a protocol object that holds
\* decoded samples.
C3_Witness ==
    /\ call.op = "parse"
    /\ call.flip > 8 * (Len(call.bytes) - 2)
    /\ call.origin.valid
    /\ raised = "CrcMismatch"
    /\ data.has_samples /\ data.samples # <<>>

\* A response frame whose Length is a multiple of 4 and larger than the
\* payload that is present.
TruncatedResponse(b) ==
    /\ ValidFrame(b)
    /\ FieldCommand(b) = Command_RESPONSE
    /\ FieldLength(b) % SampleBytes = 0
    /\ FieldLength(b) > PresentPayload(b)

\* C4: parse_packet of a truncated response (valid header, command 0x2222,
\* correct CRC, Length a multiple of 4 and larger than the payload present)
\* fails with an error and returns no samples.
C4_TruncatedResponse ==
    (call.op = "parse" /\ TruncatedResponse(call.bytes)) => raised # "none"

\* C5: parse_packet of a frame of at least 8 bytes with a valid header, a
\* correct CRC and a command that is neither 0x1111 nor 0x2222 fails with an
\* error; no decoded message is returned for it.
C5_UnknownCommand ==
    (/\ call.op = "parse"
     /\ ValidFrame(call.bytes)
     /\ FieldCommand(call.bytes) \notin {Command_QUERY, Command_RESPONSE})
    => raised # "none"

\* A response frame whose Length is not a multiple of 4.
MisalignedResponse(b) ==
    /\ ValidFrame(b)
    /\ FieldCommand(b) = Command_RESPONSE
    /\ FieldLength(b) % SampleBytes # 0

\* C6: parse_packet of a response whose Length is not a multiple of 4 fails
\* with an error, whatever payload is present, and records no type and no
\* sample count for the packet.
C6_MisalignedLength ==
    [][(call'.op = "parse" /\ MisalignedResponse(call'.bytes)) =>
          /\ raised' # "none"
          /\ data'.has_type = data.has_type /\ data'.type = data.type
          /\ data'.has_n = data.has_n /\ data'.n_samples = data.n_samples]_vars

\* C7: build_packet(RESPONSE, samples=S) with more than 16383 samples ends in
\* an error; every packet the protocol holds has a Length field equal to its
\* payload size, and a packet a build produced has Length = 4 * len(S), the
\* samples of S encoded, and a CRC over all bytes from the header through
\* the payload.
C7_OversizeGuard ==
    /\ (call.op = "build_response" /\ Len(call.samples) > MaxResponseSamples)
           => raised # "none"
    /\ packet.has_bytes =>
           /\ Len(packet.byte_array) >= 8
           /\ FieldLength(packet.byte_array) = PresentPayload(packet.byte_array)
    /\ (call.op = "build_response" /\ raised = "none") =>
           /\ packet.has_bytes
           /\ FieldLength(packet.byte_array) = SampleBytes * Len(call.samples)
           /\ FromBuffer(SubSeq(packet.byte_array, 7, Len(packet.byte_array) - 2))
                  = call.samples
           /\ ValidCrc(packet.byte_array)

\* C7 with 16384 samples: the build ended in an error.
C7_Witness ==
    /\ call.op = "build_response"
    /\ Len(call.samples) = MaxResponseSamples + 1
    /\ raised = "StructError"

\* C8: from Idle a query writes the query packet and the session awaits the
\* response; the receive that follows, given the whole response by the
\* transport or the emulator, decodes it, hands on its samples and returns to
\* Idle, where a further query succeeds again.
C8_SessionCycle ==
    /\ call.op = "query" =>
           /\ raised = "none"
           /\ pc = "AwaitingResponse"
           /\ line_out = QueryBytes(call.n)
    /\ (/\ call.op = "receive"
        /\ parse_packet(NewPacket, NewData, call.bytes).raised = "none"
        /\ parse_packet(NewPacket, NewData, call.bytes).data.has_samples)
       => /\ raised = "none"
          /\ pc = "Idle"
          /\ shown = parse_packet(NewPacket, NewData, call.bytes).data.samples

\* C9: the message a successful parse_packet(b) returns is what b alone
\* decodes to, with nothing left over from earlier calls, and a message
\* handed out earlier is not altered by a later call.
C9_FreshMessage ==
    [][/\ (call'.op = "parse" /\ raised' = "none")
           => data' = parse_packet(NewPacket, NewData, call'.bytes).data
       /\ handed_out => data' = data]_vars

\* C10: after a query for n samples was built, 0 <= n <= 16383,
\* emulate_response returns a response packet that parse_packet accepts, with
\* n samples, consecutive time stamps and fuel levels in 0..32767.
C10_EmulatedResponse ==
    (/\ call.op = "emulate"
     /\ call.origin.valid
     /\ call.origin.type = PacketType_QUERY
     /\ call.origin.n <= MaxResponseSamples)
    => /\ raised = "none"
       /\ packet.has_bytes
       /\ LET d == parse_packet(NewPacket, NewData, packet.byte_array)
          IN  /\ d.raised = "none"
              /\ d.data.type = PacketType_RESPONSE
              /\ d.data.has_samples
              /\ Len(d.data.samples) = call.origin.n
              /\ \A i \in 1..Len(d.data.samples) :
                    /\ d.data.samples[i].TimeStamp
                           = d.data.samples[1].TimeStamp + i - 1
                    /\ d.data.samples[i].FuelLevel \in 0..(FuelLevels - 1)
====
